---- MODULE Spec2Model ----
(***************************************************************************)
(* The mention extension of the rich-text editor                           *)
(* (src/src/components/documentDetail/mention.ts): the suggestion popup    *)
(* callbacks of mention.render, the suggestion command and allow options,  *)
(* the Backspace shortcut and the render functions of the mention node.    *)
(*                                                                         *)
(* The document is a sequence of blocks (a paragraph or a code block);     *)
(* a block's content is a sequence of inline items, each of node size 1:   *)
(* a one-character text item or an atomic mention node.  Positions are the *)
(* document model's integer positions.  Strings are TLA+ strings; the      *)
(* text of a block is kept one character per item so that it can be        *)
(* indexed.                                                                *)
(***************************************************************************)
EXTENDS Integers, Sequences, FiniteSets, TLC

\* ------------------------------------------------------------- bounds
\* Largest number of inline items the whole document may hold.
MaxLen == 3

\* Longest range the user selects.
MaxSel == 1

\* ------------------------------------------------------------- values
\* JavaScript null / undefined attribute value.
NULL == "<null>"

\* Template-literal conversion `${v}`: null prints as "null".
ToStr(v) == IF v = NULL THEN "null" ELSE v

\* a ?? b
Coalesce(a, b) == IF a = NULL THEN b ELSE a

\* options.suggestion.char
char == "@"

\* The characters the user types.
Chars == {"@", " ", "j"}

\* MentionNodeAttrs: the candidates a popup offers; props of the command.
Candidates ==
    { [id |-> "doc123", label |-> "John's Notes"],
      [id |-> "d2", label |-> NULL] }

TextItem(c) == [type |-> "text", text |-> c]

MentionItem(attrs) == [type |-> "mention", attrs |-> attrs]

IsMention(item) == item.type = "mention"

IsSpace(item) == item.type = "text" /\ item.text = " "

\* ------------------------------------------------------------- schema
\* Content expressions of the block types: a paragraph holds inline*, a
\* code block holds text*.  The mention node is in group "inline".
MentionGroups == {"inline", "mention"}

BlockContent(blockType) ==
    IF blockType = "paragraph" THEN {"inline", "text"} ELSE {"text"}

\* $from.parent.type.contentMatch.matchType(type) is not null
MatchType(blockType, groups) == (BlockContent(blockType) \cap groups) # {}

\* ------------------------------------------------------------- positions
RECURSIVE Before(_, _)
\* Position right before block i of document d.
Before(d, i) == IF i = 1 THEN 0 ELSE Before(d, i - 1) + Len(d[i - 1].content) + 2

Start(d, i) == Before(d, i) + 1

End(d, i) == Start(d, i) + Len(d[i].content)

\* Positions at which a text cursor can stand.
CursorPositions(d) == UNION { Start(d, i) .. End(d, i) : i \in DOMAIN d }

\* doc.resolve(pos): the index of the parent block and the offset in it.
BlockAt(d, pos) == CHOOSE i \in DOMAIN d : Start(d, i) <= pos /\ pos <= End(d, i)

Offset(d, pos) == pos - Start(d, BlockAt(d, pos))

RECURSIVE TotalLen(_, _)
TotalLen(d, i) == IF i = 0 THEN 0 ELSE TotalLen(d, i - 1) + Len(d[i].content)

\* The content c with the items at offsets from+1 .. to replaced by items.
Splice(c, from, to, items) == SubSeq(c, 1, from) \o items \o SubSeq(c, to + 1, Len(c))

\* Document d with the positions from .. to (of one block) replaced.
ReplaceWith(d, from, to, items) ==
    LET b == BlockAt(d, from)
        s == Start(d, b)
    IN  [d EXCEPT ![b].content = Splice(@, from - s, to - s, items)]

\* ------------------------------------------------------------- rendering
\* The attribute names that occur; an attribute object maps each to its
\* value, or to NULL when it does not hold the attribute.
AttrNames == {"class", "href", "data-type", "data-id", "data-label"}

NoAttrs == [k \in AttrNames |-> NULL]

\* The attribute object {[name]: value}.
Attr(name, value) == [k \in AttrNames |-> IF k = name THEN value ELSE NULL]

\* !v
Falsy(v) == v = NULL \/ v = ""

\* mergeAttributes(a, b): b's attributes are added to a's; a class is
\* joined to an existing other class, any other attribute replaces it.
Merge2(a, b) ==
    [k \in AttrNames |->
        IF b[k] = NULL THEN a[k]
        ELSE IF Falsy(a[k]) THEN b[k]
        ELSE IF k = "class" THEN (IF a[k] = b[k] THEN a[k] ELSE a[k] \o " " \o b[k])
        ELSE b[k]]

\* mergeAttributes(a, b, c)
mergeAttributes(a, b, c) == Merge2(Merge2(a, b), c)

\* addAttributes() whose label attribute renders nothing.
RenderedAttributesIdOnly(attrs) ==
    [k \in AttrNames |-> IF k = "data-id" /\ ~Falsy(attrs.id) THEN attrs.id ELSE NULL]

\* addAttributes(): the HTML attributes rendered from the node attributes.
RenderedAttributes(attrs) ==
    [k \in AttrNames |->
        IF k = "data-id" /\ ~Falsy(attrs.id) THEN attrs.id
        ELSE IF k = "data-label" /\ ~Falsy(attrs.label) THEN attrs.label
        ELSE NULL]

\* getHrefFromNode that leaves the id out.
getHrefFromNodeNoId(n) == "/thoughts/"

\* getHrefFromNode(node)
getHrefFromNode(n) == "/thoughts/" \o ToStr(n.attrs.id)

\* renderText of the options with || in place of ??.
optionsRenderTextOr(opts, n) ==
    char \o ToStr(IF Falsy(n.attrs.label) THEN n.attrs.id ELSE n.attrs.label)

\* addOptions().renderText({options, node})
optionsRenderText(opts, n) == char \o ToStr(Coalesce(n.attrs.label, n.attrs.id))

\* addOptions().renderHTML({options, node}), called on this.options (self)
optionsRenderHTML(self, opts, n) ==
    [tag |-> "a",
     attrs |-> mergeAttributes(Merge2(Attr("class", "mention"),
                                      Attr("href", getHrefFromNode(n))),
                               self.HTMLAttributes, opts.HTMLAttributes),
     text |-> char \o ToStr(Coalesce(n.attrs.label, n.attrs.id))]

\* A renderLabel function a configuration supplies.
renderLabel(opts, n) == "#" \o ToStr(Coalesce(n.attrs.label, n.attrs.id))

\* Mention.renderHTML({node, HTMLAttributes})
renderHTML(opts, n, HTMLAttributes) ==
    IF opts.renderLabel # "undefined"
    THEN [warned |-> TRUE,
          tag |-> "a",
          attrs |-> mergeAttributes(Attr("data-type", "mention"),
                                    opts.HTMLAttributes, HTMLAttributes),
          text |-> renderLabel(opts, n)]
    ELSE LET mergedOptions ==
                 [opts EXCEPT !.HTMLAttributes =
                     mergeAttributes(Attr("data-type", "mention"),
                                     opts.HTMLAttributes, HTMLAttributes)]
             html == optionsRenderHTML(opts, mergedOptions, n)
         IN  [warned |-> FALSE, tag |-> html.tag, attrs |-> html.attrs,
              text |-> html.text]

\* Mention.renderText that never consults renderLabel.
renderTextIgnoresLabel(opts, n) ==
    [warned |-> FALSE, text |-> optionsRenderText(opts, n)]

\* Mention.renderText({node}): the text, and whether console.warn was called
renderText(opts, n) ==
    IF opts.renderLabel # "undefined"
    THEN [warned |-> TRUE, text |-> renderLabel(opts, n)]
    ELSE [warned |-> FALSE, text |-> optionsRenderText(opts, n)]

\* addStorage().markdown.serialize(state, node): what state.write is given
markdownSerialize(n) ==
    "[@" \o ToStr(Coalesce(n.attrs.label, n.attrs.id)) \o "](" \o getHrefFromNode(n) \o ")"

\* addStorage().markdown.parse: the rules to parse a mention from markdown
markdownParse == {}

\* addOptions(): the default options.
DefaultOptions ==
    [HTMLAttributes |-> NoAttrs, renderLabel |-> "undefined",
     deleteTriggerWithBackspace |-> FALSE]

VARIABLES
    doc,            \* editor.state.doc
    selection,      \* editor.state.selection: [anchor, head]
    suggestion,     \* state of the suggestion plugin: [active, range, query]
    reactRenderer,  \* closure variable of render(): [state, props]
    popup,          \* closure variable of render(): [state, visible, rect]
    hideHandedOut,  \* a `hide` closure has been passed to the popup handler
    options,        \* this.options of the extension
    node,           \* the mention node handed to a render function
    out,            \* the result of the last render function
    last            \* what the last operation did (see Finish)

vars == <<doc, selection, suggestion, reactRenderer, popup, hideHandedOut,
          options, node, out, last>>

\* ------------------------------------------------------------- popup
\* The props object the suggestion plugin hands to the render callbacks:
\* the matched range, the query and whether a clientRect is available.
Props(state, rect) == [range |-> state.range, query |-> state.query, clientRect |-> rect]

NoProps == [range |-> <<0, 0>>, query |-> <<>>, clientRect |-> FALSE]

\* `let reactRenderer; let popup;` : both undefined after render().  What a
\* destroyed renderer or popup holds is not kept: nothing reads it.
Undefined == [state |-> "undefined", props |-> NoProps]

UndefinedPopup == [state |-> "undefined", visible |-> FALSE, rect |-> <<0, 0>>]

\* The closure of render() while one event is handled: the two closure
\* variables, whether a hide closure was handed out, and what the callbacks
\* run so far did: calls (the callbacks run), threw (a TypeError on an
\* undefined handle), stale (a call on a destroyed popup or renderer),
\* handled (whether the key event was handled).
Closure(rr, pp, hho) ==
    [reactRenderer |-> rr, popup |-> pp, hideHandedOut |-> hho, calls |-> {},
     threw |-> FALSE, stale |-> FALSE, handled |-> FALSE]

Called(c, name) == [c EXCEPT !.calls = @ \cup {name}]

\* new ReactRenderer(MentionHandler, {props, editor})
NewReactRenderer(props) == [state |-> "live", props |-> props]

\* tippy("body", {getReferenceClientRect: props.clientRect, showOnCreate: true, ...})
NewPopup(props) == [state |-> "live", visible |-> TRUE, rect |-> props.range]

\* onStart(props)
OnStart(c, props) ==
    IF ~props.clientRect THEN Called(c, "onStart")
    ELSE [Called(c, "onStart") EXCEPT !.reactRenderer = NewReactRenderer(props),
                                      !.popup = NewPopup(props)]

\* popup[0].destroy()
DestroyPopup(c) ==
    CASE c.popup.state = "undefined" -> [c EXCEPT !.threw = TRUE]
      [] c.popup.state = "destroyed" -> [c EXCEPT !.stale = TRUE]
      [] OTHER -> [c EXCEPT !.popup = [UndefinedPopup EXCEPT !.state = "destroyed"]]

\* reactRenderer.destroy()
DestroyRenderer(c) ==
    CASE c.reactRenderer.state = "undefined" -> [c EXCEPT !.threw = TRUE]
      [] c.reactRenderer.state = "destroyed" -> [c EXCEPT !.stale = TRUE]
      [] OTHER -> [c EXCEPT !.reactRenderer = [Undefined EXCEPT !.state = "destroyed"]]

\* setProps that installs nothing on the popup.
SetPropsKeeps(c, props) ==
    CASE c.popup.state = "undefined" -> [c EXCEPT !.threw = TRUE]
      [] c.popup.state = "destroyed" -> [c EXCEPT !.stale = TRUE]
      [] OTHER -> c

\* popup[0].setProps({getReferenceClientRect: props.clientRect})
SetProps(c, props) ==
    CASE c.popup.state = "undefined" -> [c EXCEPT !.threw = TRUE]
      [] c.popup.state = "destroyed" -> [c EXCEPT !.stale = TRUE]
      [] OTHER -> [c EXCEPT !.popup.rect = props.range]

\* reactRenderer.updateProps(props)
UpdateProps(c, props) ==
    CASE c.reactRenderer.state = "undefined" -> [c EXCEPT !.threw = TRUE]
      [] c.reactRenderer.state = "destroyed" -> [c EXCEPT !.stale = TRUE]
      [] OTHER -> [c EXCEPT !.reactRenderer.props = props]

\* onUpdate that tears the popup down when the clientRect is missing.
OnUpdateClosing(c, props) ==
    LET c1 == UpdateProps(Called(c, "onUpdate"), props)
    IN  IF c1.threw THEN c1
        ELSE IF ~props.clientRect THEN DestroyRenderer(DestroyPopup(c1))
        ELSE SetProps(c1, props)

\* onUpdate(props)
OnUpdate(c, props) ==
    LET c1 == UpdateProps(Called(c, "onUpdate"), props)
    IN  IF c1.threw THEN c1
        ELSE IF ~props.clientRect THEN c1
        ELSE SetProps(c1, props)

\* hide closure that destroys the popup instead of hiding it.
hideDestroys(c) ==
    CASE c.popup.state = "undefined" -> [c EXCEPT !.threw = TRUE]
      [] c.popup.state = "destroyed" -> [c EXCEPT !.stale = TRUE]
      [] OTHER -> [c EXCEPT !.popup = [UndefinedPopup EXCEPT !.state = "destroyed"]]

\* const hide = () => { popup[0].hide(); }
hide(c) ==
    CASE c.popup.state = "undefined" -> [c EXCEPT !.threw = TRUE]
      [] c.popup.state = "destroyed" -> [c EXCEPT !.stale = TRUE]
      [] OTHER -> [c EXCEPT !.popup.visible = FALSE]

\* The key handler of the mounted popup component (MentionHandler, not in
\* the sources): Escape dismisses the popup through the hide closure it is
\* given and is handled; the arrow keys are handled; other keys are not.
HandlerOnKeyDown(c, key) ==
    CASE key = "Escape" -> [hide(c) EXCEPT !.handled = TRUE]
      [] key = "ArrowDown" -> [c EXCEPT !.handled = TRUE]
      [] OTHER -> c

\* onKeyDown that forwards the key and returns nothing.
OnKeyDownUnhandled(c, key) ==
    LET c0 == Called(c, "onKeyDown")
    IN  CASE c0.reactRenderer.state = "undefined" -> [c0 EXCEPT !.threw = TRUE]
          [] c0.reactRenderer.state = "destroyed" -> c0
          [] OTHER -> [HandlerOnKeyDown([c0 EXCEPT !.hideHandedOut = TRUE], key)
                          EXCEPT !.handled = FALSE]

\* onKeyDown(props): return reactRenderer.ref?.onKeyDown({...props, hide})
OnKeyDown(c, key) ==
    LET c0 == Called(c, "onKeyDown")
    IN  CASE c0.reactRenderer.state = "undefined" -> [c0 EXCEPT !.threw = TRUE]
          [] c0.reactRenderer.state = "destroyed" -> c0
          [] OTHER -> HandlerOnKeyDown([c0 EXCEPT !.hideHandedOut = TRUE], key)

\* onExit that only hides the popup.
OnExitHides(c) ==
    CASE c.popup.state = "undefined" -> [Called(c, "onExit") EXCEPT !.threw = TRUE]
      [] c.popup.state = "destroyed" -> [Called(c, "onExit") EXCEPT !.stale = TRUE]
      [] OTHER -> [Called(c, "onExit") EXCEPT !.popup.visible = FALSE]

\* onExit()
OnExit(c) ==
    LET c1 == DestroyPopup(Called(c, "onExit"))
    IN  IF c1.threw THEN c1 ELSE DestroyRenderer(c1)

\* ------------------------------------------------------------- suggestion
Max(S) == CHOOSE x \in S : \A y \in S : y <= x

Inactive == [active |-> FALSE, range |-> <<0, 0>>, query |-> <<>>]

\* The offset at which the text node before offset off of content c starts:
\* right after the nearest mention node before off, or the block start.
TextStart(c, off) == Max({0} \cup {k \in 1 .. off : IsMention(c[k])})

\* findSuggestionMatch of the suggestion plugin for char "@", no spaces
\* allowed, allowed prefix " ": the last "@" of the text node before the
\* cursor, preceded by nothing or a space, with no space up to the cursor.
FindSuggestionMatch(d, pos) ==
    LET b == BlockAt(d, pos)
        c == d[b].content
        off == Offset(d, pos)
        ts == TextStart(c, off)
        ats == {k \in ts + 1 .. off : c[k].text = char}
        a == Max(ats)
    IN  IF ats = {} THEN Inactive
        ELSE IF ~(a = ts + 1 \/ IsSpace(c[a - 1])) THEN Inactive
        ELSE IF \E k \in a + 1 .. off : IsSpace(c[k]) THEN Inactive
        ELSE [active |-> TRUE,
              range |-> <<Start(d, b) + a - 1, pos>>,
              query |-> [k \in 1 .. off - a |-> c[a + k].text]]

\* allow that never consults the schema.
allowAlways(d, range) == TRUE

\* suggestion.allow({state, range})
allow(d, range) == MatchType(d[BlockAt(d, range[1])].type, MentionGroups)

\* apply() of the suggestion plugin: the next plugin state.
Apply(d, sel) ==
    IF sel.anchor # sel.head THEN Inactive
    ELSE LET match == FindSuggestionMatch(d, sel.head)
         IN  IF match.active /\ allow(d, match.range) THEN match ELSE Inactive

\* A callback run after the callbacks that led to closure c0.
After(c0, c1) == [c1 EXCEPT !.threw = c0.threw \/ c1.threw]

\* update() of the suggestion plugin's view: which of the render callbacks
\* run for the change of plugin state from prev to next, in the order
\* onExit, onUpdate, onStart; a callback that throws ends the update.
ViewUpdate(c, prev, next, rect) ==
    LET moved == prev.active /\ next.active /\ prev.range[1] # next.range[1]
        started == ~prev.active /\ next.active
        stopped == prev.active /\ ~next.active
        changed == ~started /\ ~stopped /\ prev.query # next.query
        handleStart == started \/ (moved /\ changed)
        handleChange == changed \/ moved
        handleExit == stopped \/ (moved /\ changed)
        state == IF handleExit /\ ~handleStart THEN prev ELSE next
        props == Props(state, rect)
        c0 == [c EXCEPT !.threw = FALSE]
        c1 == IF handleExit THEN OnExit(c0) ELSE c0
        c2 == IF ~c1.threw /\ handleChange THEN OnUpdate(c1, props) ELSE c1
        c3 == IF ~c2.threw /\ handleStart THEN OnStart(c2, props) ELSE c2
    IN  After(c, c3)

\* command that never extends the range over a following space.
commandNoOverride(d, sel, range, props) ==
    [overrideSpace |-> FALSE,
     doc |-> ReplaceWith(d, range[1], range[2], <<MentionItem(props), TextItem(" ")>>),
     selection |-> [anchor |-> range[1] + 2, head |-> range[1] + 2]]

\* suggestion.command({editor, range, props})
command(d, sel, range, props) ==
    LET to == IF sel.anchor > sel.head THEN sel.anchor ELSE sel.head
        c == d[BlockAt(d, to)].content
        off == Offset(d, to)
        overrideSpace == off < Len(c) /\ IsSpace(c[off + 1])
        rangeTo == IF overrideSpace THEN range[2] + 1 ELSE range[2]
    IN  [overrideSpace |-> overrideSpace,
         doc |-> ReplaceWith(d, range[1], rangeTo,
                             <<MentionItem(props), TextItem(" ")>>),
         selection |-> [anchor |-> range[1] + 2, head |-> range[1] + 2]]

\* Backspace shortcut that inserts the text at pos without replacing the node.
BackspaceKeepsNode(d, sel, opts) ==
    LET anchor == sel.anchor
        c == d[BlockAt(d, anchor)].content
        off == Offset(d, anchor)
        isMention == sel.anchor = sel.head /\ off > 0 /\ c[off].type = "mention"
        text == IF opts.deleteTriggerWithBackspace THEN <<>> ELSE <<TextItem(char)>>
    IN  IF isMention
        THEN [handled |-> TRUE,
              doc |-> ReplaceWith(d, anchor - 1, anchor - 1, text),
              selection |-> sel]
        ELSE [handled |-> FALSE, doc |-> d, selection |-> sel]

\* Backspace shortcut that does not look at whether the selection is empty.
BackspaceIgnoresEmpty(d, sel, opts) ==
    LET anchor == sel.anchor
        c == d[BlockAt(d, anchor)].content
        off == Offset(d, anchor)
        isMention == off > 0 /\ c[off].type = "mention"
        text == IF opts.deleteTriggerWithBackspace THEN <<>> ELSE <<TextItem(char)>>
        at == anchor - 1 + Len(text)
    IN  IF isMention
        THEN [handled |-> TRUE,
              doc |-> ReplaceWith(d, anchor - 1, anchor, text),
              selection |-> [anchor |-> at, head |-> at]]
        ELSE [handled |-> FALSE, doc |-> d, selection |-> sel]

\* The Backspace shortcut: [handled, doc, selection]
Backspace(d, sel, opts) ==
    LET anchor == sel.anchor
        c == d[BlockAt(d, anchor)].content
        off == Offset(d, anchor)
        isMention == sel.anchor = sel.head /\ off > 0 /\ c[off].type = "mention"
        text == IF opts.deleteTriggerWithBackspace THEN <<>> ELSE <<TextItem(char)>>
        at == anchor - 1 + Len(text)
    IN  IF isMention
        THEN [handled |-> TRUE,
              doc |-> ReplaceWith(d, anchor - 1, anchor, text),
              selection |-> [anchor |-> at, head |-> at]]
        ELSE [handled |-> FALSE, doc |-> d, selection |-> sel]

\* The editor's own Backspace, run when no shortcut handled the key: it
\* deletes the selection, or the item before the cursor.
DefaultBackspace(d, sel) ==
    LET from == IF sel.anchor < sel.head THEN sel.anchor ELSE sel.head
        to == IF sel.anchor < sel.head THEN sel.head ELSE sel.anchor
        lo == IF from = to /\ Offset(d, from) > 0 THEN from - 1 ELSE from
    IN  [doc |-> ReplaceWith(d, lo, to, <<>>),
         selection |-> [anchor |-> lo, head |-> lo]]

\* What the editor does with a key that no handler handled: Backspace
\* deletes, ArrowDown in the only block puts the cursor at the end of the
\* block, Escape does nothing, a character replaces the selection.
EditorDefault(key, d, sel) ==
    LET from == IF sel.anchor < sel.head THEN sel.anchor ELSE sel.head
        to == IF sel.anchor < sel.head THEN sel.head ELSE sel.anchor
        end == End(d, BlockAt(d, sel.head))
    IN  CASE key = "Backspace" -> DefaultBackspace(d, sel)
          [] key = "ArrowDown" -> [doc |-> d, selection |-> [anchor |-> end, head |-> end]]
          [] key = "Escape" -> [doc |-> d, selection |-> sel]
          [] OTHER -> [doc |-> ReplaceWith(d, from, to, <<TextItem(key)>>),
                       selection |-> [anchor |-> from + 1, head |-> from + 1]]

\* ------------------------------------------------------------- operations
TheClosure == Closure(reactRenderer, popup, hideHandedOut)

NoArg == [props |-> [id |-> NULL, label |-> NULL], overrideSpace |-> FALSE]

\* The closure variables after an event, and the record of the event: the
\* operation ("input" for typing and for moving the cursor, "backspace",
\* "select", the key of a key event, "hide"), the callbacks it ran, whether the props they were given had
\* a clientRect, whether one threw or acted on a destroyed handle, whether
\* the key was handled, and the argument and space override of a command.
Finish(op, c, rect, arg) ==
    /\ reactRenderer' = c.reactRenderer
    /\ popup' = c.popup
    /\ hideHandedOut' = c.hideHandedOut
    /\ last' = [op |-> op, calls |-> c.calls,
                clientRect |-> rect /\ c.calls \cap {"onStart", "onUpdate"} # {},
                threw |-> c.threw, stale |-> c.stale, handled |-> c.handled,
                props |-> arg.props, overrideSpace |-> arg.overrideSpace]

\* A transaction: the document and selection change, the suggestion plugin
\* computes its next state and its view runs the render callbacks.  The
\* clientRect of the props is an input only when a callback is given it.
Dispatch(op, c, d, sel, rect, arg) ==
    LET next == Apply(d, sel)
        c2 == ViewUpdate(c, suggestion, next, rect)
    IN  /\ rect \/ c2.calls \cap {"onStart", "onUpdate"} # {}
        /\ doc' = d
        /\ selection' = sel
        /\ suggestion' = next
        /\ Finish(op, c2, rect, arg)
        /\ UNCHANGED <<options, node, out>>

\* A key event goes to the popup first while the suggestion is active.
Forward(c, key) == IF suggestion.active THEN OnKeyDown(c, key) ELSE c

SelFrom == IF selection.anchor < selection.head THEN selection.anchor ELSE selection.head

SelTo == IF selection.anchor < selection.head THEN selection.head ELSE selection.anchor

\* The user types a character: it replaces the selection.
TypeChar ==
    \E ch \in Chars, rect \in BOOLEAN :
        LET c == Forward(TheClosure, ch)
            e == EditorDefault(ch, doc, selection)
        IN  /\ TotalLen(doc, Len(doc)) - (SelTo - SelFrom) < MaxLen
            /\ ~c.handled
            /\ Dispatch("input", c, e.doc, e.selection, rect, NoArg)

\* The user places the cursor or selects a range, forward, inside one block.
MoveCursor ==
    \E a \in CursorPositions(doc), h \in CursorPositions(doc), rect \in BOOLEAN :
        /\ BlockAt(doc, a) = BlockAt(doc, h)
        /\ a <= h /\ h - a <= MaxSel
        /\ [anchor |-> a, head |-> h] # selection
        /\ Dispatch("input", TheClosure, doc, [anchor |-> a, head |-> h], rect, NoArg)

\* The user presses Backspace: the shortcut of the extension runs first;
\* unhandled, the key goes to the popup and then to the editor.  When the
\* popup callback throws, the editor's own handling may or may not run.
PressBackspace ==
    \E rect \in BOOLEAN, fallback \in BOOLEAN :
        LET r == Backspace(doc, selection, options)
            c == Forward(TheClosure, "Backspace")
            e == EditorDefault("Backspace", doc, selection)
        IN  IF r.handled
            THEN /\ fallback
                 /\ Dispatch("backspace", [TheClosure EXCEPT !.handled = TRUE],
                             r.doc, r.selection, rect, NoArg)
            ELSE IF c.threw /\ ~fallback
            THEN /\ ~rect
                 /\ Finish("backspace", c, rect, NoArg)
                 /\ UNCHANGED <<doc, selection, suggestion, options, node, out>>
            ELSE /\ c.threw \/ fallback
                 /\ Dispatch("backspace", c, e.doc, e.selection, rect, NoArg)

\* A key that edits nothing is pressed while the suggestion is active: it
\* goes to the popup, and unhandled, to the editor.  When the popup callback
\* throws, the editor's own handling may or may not run.
KeyDown ==
    \E key \in {"Escape", "ArrowDown"}, rect \in BOOLEAN, fallback \in BOOLEAN :
        LET c == OnKeyDown(TheClosure, key)
            e == EditorDefault(key, doc, selection)
        IN  /\ suggestion.active
            /\ IF c.handled \/ (c.threw /\ ~fallback)
               THEN /\ ~rect
                    /\ c.threw \/ fallback
                    /\ Finish(key, c, rect, NoArg)
                    /\ UNCHANGED <<doc, selection, suggestion, options, node, out>>
               ELSE /\ c.threw \/ fallback
                    /\ Dispatch(key, c, e.doc, e.selection, rect, NoArg)

\* The popup component calls the hide closure it was given at a later time.
LateHide ==
    /\ hideHandedOut
    /\ Finish("hide", hide(TheClosure), FALSE, NoArg)
    /\ UNCHANGED <<doc, selection, suggestion, options, node, out>>

\* The user picks a candidate in the shown popup: props.command(item).
SelectCandidate ==
    \E item \in Candidates, rect \in BOOLEAN :
        LET r == command(doc, selection, suggestion.range, item)
        IN  /\ suggestion.active
            /\ reactRenderer.state = "live"
            /\ popup.state = "live" /\ popup.visible
            /\ TotalLen(r.doc, Len(r.doc)) <= MaxLen
            /\ Dispatch("select", TheClosure, r.doc, r.selection, rect,
                        [props |-> item, overrideSpace |-> r.overrideSpace])

NoNode == MentionItem([id |-> NULL, label |-> NULL])

NoOutput ==
    [fn |-> "none", tag |-> NULL, attrs |-> NoAttrs, text |-> NULL, warned |-> FALSE]

\* An empty document of one block, a paragraph or a code block.
Init ==
    /\ doc \in { << [type |-> t, content |-> <<>>] >> : t \in {"paragraph", "codeBlock"} }
    /\ selection = [anchor |-> 1, head |-> 1]
    /\ suggestion = Inactive
    /\ reactRenderer = Undefined
    /\ popup = UndefinedPopup
    /\ hideHandedOut = FALSE
    /\ options \in {[DefaultOptions EXCEPT !.deleteTriggerWithBackspace = b] : b \in BOOLEAN}
    /\ node = NoNode
    /\ out = NoOutput
    /\ last = [op |-> "init", calls |-> {}, clientRect |-> FALSE, threw |-> FALSE,
               stale |-> FALSE, handled |-> FALSE,
               props |-> NoArg.props, overrideSpace |-> FALSE]

Next ==
    \/ TypeChar
    \/ MoveCursor
    \/ PressBackspace
    \/ KeyDown
    \/ LateHide
    \/ SelectCandidate

Spec == Init /\ [][Next]_vars

\* ------------------------------------------------------------- properties
\* The block type admits a mention node as content.
Admits(blockType) == "inline" \in BlockContent(blockType)

\* C1: the suggestion never becomes active, and no popup exists, for a
\* trigger range whose parent block does not admit the mention node, and
\* no mention node is ever placed in such a block.
C1_PopupOnlyWhereAllowed ==
    /\ suggestion.active => Admits(doc[BlockAt(doc, suggestion.range[1])].type)
    /\ popup.state = "live" => suggestion.active
    /\ \A b \in DOMAIN doc : \A k \in DOMAIN doc[b].content :
           IsMention(doc[b].content[k]) => Admits(doc[b].type)

\* The trigger character was typed in the code block, where the schema
\* forbids the mention node, and nothing opened.
C1_Witness ==
    /\ last.op = "input"
    /\ doc[1].type = "codeBlock"
    /\ Offset(doc, selection.head) > 0
    /\ doc[1].content[Offset(doc, selection.head)] = TextItem(char)
    /\ ~suggestion.active
    /\ "onStart" \notin last.calls

RECURSIVE LeadingSpaces(_)
\* The number of spaces the content s starts with.
LeadingSpaces(s) ==
    IF s = <<>> \/ ~IsSpace(Head(s)) THEN 0 ELSE 1 + LeadingSpaces(Tail(s))

\* The content after position off.
Rest(c, off) == SubSeq(c, off + 1, Len(c))

\* C2 as claimed: after the insert the mention node is followed by exactly
\* one space.
C2_ExactlyOneSpaceFollows ==
    last.op = "select" =>
        LET c == doc[BlockAt(doc, selection.head)].content
            off == Offset(doc, selection.head)
        IN  /\ IsMention(c[off - 1])
            /\ LeadingSpaces(Rest(c, off - 1)) = 1

\* C2 as amended: the command consumes exactly one following space when
\* there is one and none otherwise: the mention is followed by as many
\* spaces as followed the insertion point, and by one when none did; the
\* content before the range and the content after those spaces is kept.
C2_ConsumesOneSpace ==
    [][last'.op = "select" =>
        LET b == BlockAt(doc, selection.head)
            c == doc[b].content
            off == Offset(doc, selection.head)
            from == suggestion.range[1] - Start(doc, b)
            n == LeadingSpaces(Rest(c, off))
            c2 == doc'[b].content
        IN  /\ last'.overrideSpace = (n > 0)
            /\ SubSeq(c2, 1, from) = SubSeq(c, 1, from)
            /\ IsMention(c2[from + 1])
            /\ LeadingSpaces(Rest(c2, from + 1)) = (IF n = 0 THEN 1 ELSE n)
            /\ Rest(c2, from + 1 + (IF n = 0 THEN 1 ELSE n)) = Rest(c, off + n)
    ]_vars

\* A candidate was inserted in front of a space, which the range took in.
C2_Witness ==
    /\ last.op = "select"
    /\ last.overrideSpace
    /\ LeadingSpaces(Rest(doc[1].content, Offset(doc, selection.head) - 1)) = 1

\* The number of mention nodes in content s.
Mentions(s) == Cardinality({k \in DOMAIN s : IsMention(s[k])})

\* C3: Backspace with an empty selection right after a mention node
\* replaces exactly that node, in one step, by nothing or by the trigger
\* character as the flag says, and changes nothing else of the document.
C3_BackspaceRemovesMention ==
    [][(/\ last'.op = "backspace"
        /\ selection.anchor = selection.head
        /\ Offset(doc, selection.anchor) > 0
        /\ IsMention(doc[BlockAt(doc, selection.anchor)].content[Offset(doc, selection.anchor)]))
       =>
        LET b == BlockAt(doc, selection.anchor)
            c == doc[b].content
            off == Offset(doc, selection.anchor)
            c2 == doc'[b].content
            put == IF options.deleteTriggerWithBackspace THEN <<>> ELSE <<TextItem(char)>>
        IN  /\ \A o \in DOMAIN doc : o # b => doc'[o] = doc[o]
            /\ doc'[b].type = doc[b].type
            /\ c2 = SubSeq(c, 1, off - 1) \o put \o Rest(c, off)
            /\ Mentions(c2) = Mentions(c) - 1
            /\ last'.handled
    ]_vars

\* Backspace was pressed right after a mention node and handled.
C3_Witness == last.op = "backspace" /\ last.handled

C6_NoCallbackThrows == ~last.threw

\* C7 as claimed: an update without a clientRect while the popup is shown
\* leaves no popup shown.
C7_UpdateWithoutRectCloses ==
    [][(/\ popup.state = "live" /\ popup.visible
        /\ last'.calls = {"onUpdate"} /\ ~last'.clientRect)
       => ~(popup'.state = "live" /\ popup'.visible)]_vars

\* C7 as amended: an update without a clientRect while the popup is shown
\* passes the new props to the renderer and skips the popup: the session
\* stays active and the popup stays shown where it was.
C7_UpdateWithoutRectSkips ==
    [][(/\ popup.state = "live" /\ popup.visible
        /\ last'.calls = {"onUpdate"} /\ ~last'.clientRect)
       => /\ popup' = popup
          /\ suggestion'.active
          /\ reactRenderer'.state = "live"
          /\ reactRenderer'.props = Props(suggestion', FALSE)
          /\ ~last'.threw]_vars

\* The popup is shown after an update whose props held no clientRect.
C7_Witness ==
    /\ last.calls = {"onUpdate"} /\ ~last.clientRect
    /\ popup.state = "live" /\ popup.visible
    /\ popup.rect # reactRenderer.props.range

C9_NoCallOnDestroyed == ~last.stale

\* A transition that is a key event: a key of KeyDown, Backspace, or typing.
IsKeyEvent ==
    \/ last'.op \in {"Escape", "ArrowDown", "backspace"}
    \/ last'.op = "input" /\ doc' # doc

\* The key of the key event: the typed character is the one inserted.
KeyOfEvent ==
    CASE last'.op \in {"Escape", "ArrowDown"} -> last'.op
      [] last'.op = "backspace" -> "Backspace"
      [] OTHER -> doc'[BlockAt(doc, SelFrom)].content[Offset(doc, SelFrom) + 1].text

\* C13: while the popup exists every key event goes to the popup's key
\* handler; what onKeyDown returns is what that handler reports, and the
\* editor does with the key what it does with an unhandled key exactly when
\* the handler reports it unhandled; a handled key changes nothing in the
\* editor.
C13_KeysGoToPopupFirst ==
    [][(popup.state = "live" /\ IsKeyEvent) =>
        LET reported == HandlerOnKeyDown(TheClosure, KeyOfEvent).handled
            e == EditorDefault(KeyOfEvent, doc, selection)
        IN  /\ "onKeyDown" \in last'.calls
            /\ last'.handled = reported
            /\ ~last'.threw
            /\ IF reported
               THEN doc' = doc /\ selection' = selection /\ suggestion' = suggestion
               ELSE doc' = e.doc /\ selection' = e.selection
    ]_vars

\* ArrowDown was pressed in the open popup: the popup handled it and the
\* cursor, which is not at the end of the block, stayed.
C13_Witness ==
    /\ last.op = "ArrowDown"
    /\ last.handled
    /\ "onKeyDown" \in last.calls
    /\ popup.state = "live"
    /\ selection.head < End(doc, 1)

\* C14 as claimed: every update while the popup exists passes the new props
\* to the renderer and installs the new reference rectangle on the popup.
C14_UpdateRepositions ==
    [][(/\ popup.state = "live"
        /\ "onUpdate" \in last'.calls /\ "onExit" \notin last'.calls)
       => /\ reactRenderer'.props = Props(suggestion', last'.clientRect)
          /\ popup'.state = "live"
          /\ popup'.rect = suggestion'.range]_vars

\* C14 as amended: every update while the popup exists passes the new props
\* to the renderer; it installs the new reference rectangle on the popup
\* when the props hold a clientRect and leaves the popup as it is otherwise.
C14_UpdatePassesProps ==
    [][(/\ popup.state = "live"
        /\ "onUpdate" \in last'.calls /\ "onExit" \notin last'.calls)
       => /\ reactRenderer'.state = "live"
          /\ reactRenderer'.props = Props(suggestion', last'.clientRect)
          /\ popup' = IF last'.clientRect
                      THEN [popup EXCEPT !.rect = suggestion'.range]
                      ELSE popup
          /\ ~last'.threw /\ ~last'.stale]_vars

\* After "@" opened the popup a character of the query was typed: the
\* update, whose props held a clientRect, moved the popup to the new range.
C14_Witness ==
    /\ last.calls = {"onKeyDown", "onUpdate"}
    /\ last.clientRect
    /\ Len(suggestion.query) > 0
    /\ popup.state = "live"
    /\ popup.rect = suggestion.range
    /\ reactRenderer.props = Props(suggestion, TRUE)

\* The selection is empty and the node that ends at the anchor is a mention.
MentionBeforeCursor ==
    /\ selection.anchor = selection.head
    /\ Offset(doc, selection.anchor) > 0
    /\ IsMention(doc[BlockAt(doc, selection.anchor)].content[Offset(doc, selection.anchor)])

\* C17: when the selection is not empty or the node that ends at the anchor
\* is not a mention, the Backspace shortcut returns false and changes
\* nothing, and the key gets the editor's own Backspace (which a popup
\* callback that throws on the way may prevent).
C17_BackspaceElsewhereIsNoOp ==
    [][(last'.op = "backspace" /\ ~MentionBeforeCursor) =>
        LET e == DefaultBackspace(doc, selection)
        IN  /\ Backspace(doc, selection, options)
                 = [handled |-> FALSE, doc |-> doc, selection |-> selection]
            /\ ~last'.handled
            /\ IF last'.threw
               THEN doc' \in {doc, e.doc}
               ELSE doc' = e.doc /\ selection' = e.selection
    ]_vars

\* Backspace was pressed with a selection that starts right after a
\* mention: the shortcut left the key to the editor, which deleted the
\* selected space and kept the mention.
C17_Witness ==
    /\ last.op = "backspace"
    /\ ~last.handled /\ ~last.threw
    /\ Len(doc[1].content) = 1
    /\ IsMention(doc[1].content[1])
    /\ selection.head = 2

\* C18: the popup and the renderer exist as a pair, an onExit destroys a
\* pair that has not been destroyed before, and after an onExit that no
\* onStart follows no popup and no renderer is alive.
C18_PopupResourcesPaired ==
    /\ (popup.state = "live") = (reactRenderer.state = "live")
    /\ "onExit" \in last.calls => ~last.stale
    /\ ("onExit" \in last.calls /\ "onStart" \notin last.calls) =>
           popup.state # "live" /\ reactRenderer.state # "live"

\* ------------------------------------------------------------- render specification
\* The node attributes and the configurations the render functions are
\* applied to.
Ids == {NULL, "", "doc123"}

Labels == {NULL, "", "Label"}

Configurations ==
    { [DefaultOptions EXCEPT !.HTMLAttributes = h, !.renderLabel = r] :
        h \in {NoAttrs, Attr("class", "foo"), Attr("href", "/elsewhere")},
        r \in {"undefined", "custom"} }

InitRender ==
    /\ doc = << [type |-> "paragraph", content |-> <<>>] >>
    /\ selection = [anchor |-> 1, head |-> 1]
    /\ suggestion = Inactive
    /\ reactRenderer = Undefined
    /\ popup = UndefinedPopup
    /\ hideHandedOut = FALSE
    /\ options \in Configurations
    /\ node \in {MentionItem([id |-> i, label |-> l]) : i \in Ids, l \in Labels}
    /\ out = NoOutput
    /\ last = [op |-> "init", calls |-> {}, clientRect |-> FALSE, threw |-> FALSE,
               stale |-> FALSE, handled |-> FALSE,
               props |-> NoArg.props, overrideSpace |-> FALSE]

\* The editor renders the node as text.
RenderText ==
    /\ out' = [fn |-> "renderText", tag |-> NULL, attrs |-> NoAttrs,
               text |-> renderText(options, node).text,
               warned |-> renderText(options, node).warned]
    /\ UNCHANGED <<doc, selection, suggestion, reactRenderer, popup,
                   hideHandedOut, options, node, last>>

\* The editor renders the node as markup.
RenderHTML ==
    LET html == renderHTML(options, node, RenderedAttributes(node.attrs))
    IN  /\ out' = [fn |-> "renderHTML", tag |-> html.tag, attrs |-> html.attrs,
                   text |-> html.text, warned |-> html.warned]
        /\ UNCHANGED <<doc, selection, suggestion, reactRenderer, popup,
                       hideHandedOut, options, node, last>>

\* The document is serialized to markdown: the text written for the node.
SerializeMarkdown ==
    /\ out' = [fn |-> "serialize", tag |-> NULL, attrs |-> NoAttrs,
               text |-> markdownSerialize(node), warned |-> FALSE]
    /\ UNCHANGED <<doc, selection, suggestion, reactRenderer, popup,
                   hideHandedOut, options, node, last>>

NextRender ==
    \/ RenderText
    \/ RenderHTML
    \/ SerializeMarkdown

SpecRender == InitRender /\ [][NextRender]_vars

\* C4: with no renderLabel, the text of a rendered mention is "@" and the
\* label when the label is set, and "@" and the id when it is absent.
C4_RenderedText ==
    (out.fn \in {"renderText", "renderHTML"} /\ options.renderLabel = "undefined") =>
        out.text = (IF node.attrs.label # NULL
                    THEN "@" \o node.attrs.label
                    ELSE "@" \o ToStr(node.attrs.id))

\* A mention without a label was rendered as text with the default options.
C4_Witness ==
    /\ out.fn = "renderText"
    /\ options = DefaultOptions
    /\ node.attrs = [id |-> "doc123", label |-> NULL]
    /\ out.text = "@doc123"

\* C10: the markup of a mention carries href "/thoughts/" and the node's id
\* in every configuration.
C10_HrefToThought ==
    out.fn = "renderHTML" => out.attrs["href"] = "/thoughts/" \o ToStr(node.attrs.id)

\* The value of an attribute that is rendered only for a non-empty value.
IfNonEmpty(v) == IF Falsy(v) THEN NULL ELSE v

\* C11 as claimed: the markup of a mention is an anchor with data-type
\* "mention" whose data-id is the node's id and whose data-label is the
\* node's label (none for a null one), with the text "@" and the label or id.
C11_MarkupCarriesIdAndLabel ==
    (out.fn = "renderHTML" /\ options = DefaultOptions) =>
        /\ out.tag = "a"
        /\ out.attrs["class"] = "mention"
        /\ out.attrs["data-type"] = "mention"
        /\ out.attrs["data-id"] = node.attrs.id
        /\ out.attrs["data-label"] = node.attrs.label
        /\ out.text = "@" \o ToStr(Coalesce(node.attrs.label, node.attrs.id))

\* C11 as amended: data-id and data-label carry the id and the label when
\* these are non-empty and are left out when they are null or empty.
C11_MarkupCarriesNonEmptyIdAndLabel ==
    (out.fn = "renderHTML" /\ options.renderLabel = "undefined") =>
        /\ out.tag = "a"
        /\ options = DefaultOptions => out.attrs["class"] = "mention"
        /\ out.attrs["data-type"] = "mention"
        /\ out.attrs["data-id"] = IfNonEmpty(node.attrs.id)
        /\ out.attrs["data-label"] = IfNonEmpty(node.attrs.label)
        /\ out.text = "@" \o ToStr(Coalesce(node.attrs.label, node.attrs.id))

\* A mention with an id and a label was rendered with the default options.
C11_Witness ==
    /\ out.fn = "renderHTML"
    /\ options = DefaultOptions
    /\ node.attrs = [id |-> "doc123", label |-> "Label"]
    /\ out.attrs["data-id"] = "doc123"
    /\ out.attrs["data-label"] = "Label"

\* C12: the markdown written for a mention is "[@", the label or else the
\* id, "](/thoughts/", the id and ")"; there is no rule to parse one.
C12_MarkdownLink ==
    /\ markdownParse = {}
    /\ out.fn = "serialize" =>
          out.text = "[@" \o (IF node.attrs.label # NULL THEN node.attrs.label
                              ELSE ToStr(node.attrs.id))
                     \o "](/thoughts/" \o ToStr(node.attrs.id) \o ")"

\* The mention doc123 labelled Label was serialized.
C12_Witness ==
    /\ out.fn = "serialize"
    /\ node.attrs = [id |-> "doc123", label |-> "Label"]
    /\ out.text = "[@Label](/thoughts/doc123)"

\* C15: with a renderLabel supplied, the text and the text of the markup
\* are what renderLabel returns, not what the default functions return, a
\* warning is logged and a result is returned; without one nothing is logged.
C15_RenderLabelTakesPrecedence ==
    out.fn \in {"renderText", "renderHTML"} =>
        IF options.renderLabel # "undefined"
        THEN /\ out.warned
             /\ out.text = "#" \o ToStr(Coalesce(node.attrs.label, node.attrs.id))
             /\ out.text # "@" \o ToStr(Coalesce(node.attrs.label, node.attrs.id))
             /\ out.fn = "renderHTML" => out.tag = "a"
        ELSE ~out.warned

\* A mention was rendered as text through a supplied renderLabel.
C15_Witness ==
    /\ out.fn = "renderText"
    /\ options.renderLabel = "custom"
    /\ node.attrs = [id |-> "doc123", label |-> "Label"]
    /\ out.text = "#Label"
    /\ out.warned

\* ------------------------------------------------------------- refresher specification
\* getAllNodesWithType(editor, type) of @/utils/tiptap: the attributes and
\* the position of every node of the type in the document.
getAllNodesWithType(d, type) ==
    { [id |-> d[b].content[k].attrs.id, label |-> d[b].content[k].attrs.label,
       pos |-> Start(d, b) + k - 1] :
          <<b, k>> \in { p \in (DOMAIN d) \X (1 .. MaxLen) :
                            /\ p[2] \in DOMAIN d[p[1]].content
                            /\ d[p[1]].content[p[2]].type = type } }

\* updateMentionNodeNames that gives every mention it collects a new label.
updateMentionNodeNamesRelabels(d) ==
    LET mentions == getAllNodesWithType(d, "mention")
    IN  [b \in DOMAIN d |->
            [d[b] EXCEPT !.content =
                [k \in DOMAIN d[b].content |->
                    IF \E m \in mentions : m.pos = Start(d, b) + k - 1
                    THEN MentionItem([d[b].content[k].attrs EXCEPT !.label = "Untitled"])
                    ELSE d[b].content[k]]]]

\* updateMentionNodeNames(editor): the document it leaves.  It collects the
\* mentions; the query and the update of the labels are commented out.
updateMentionNodeNames(d) ==
    LET mentions == getAllNodesWithType(d, "mention")
    IN  d

\* What the store of the thoughts would answer to a query for the labels.
Lookups == {"fails", "unavailable", "fresh labels"}

\* The items of the documents the refresher is run on.
Items ==
    {TextItem("j")} \cup {MentionItem(a) : a \in Candidates}
        \cup {MentionItem([id |-> "doc123", label |-> "Old title"])}

\* A paragraph of up to MaxLen items, with no suggestion session.
InitRefresh ==
    /\ doc \in { << [type |-> "paragraph", content |-> c] >> :
                    c \in UNION { [1 .. n -> Items] : n \in 0 .. MaxLen } }
    /\ selection = [anchor |-> 1, head |-> 1]
    /\ suggestion = Inactive
    /\ reactRenderer = Undefined
    /\ popup = UndefinedPopup
    /\ hideHandedOut = FALSE
    /\ options = DefaultOptions
    /\ node = NoNode
    /\ out = NoOutput
    /\ last = [op |-> "init", lookup |-> NULL, mentions |-> {}]

\* The refresher runs on the document, in whatever state the store is.
UpdateMentionNodeNames ==
    \E lookup \in Lookups :
        /\ doc' = updateMentionNodeNames(doc)
        /\ last' = [op |-> "refresh", lookup |-> lookup,
                    mentions |-> getAllNodesWithType(doc, "mention")]
        /\ UNCHANGED <<selection, suggestion, reactRenderer, popup,
                       hideHandedOut, options, node, out>>

NextRefresh == UpdateMentionNodeNames

SpecRefresh == InitRefresh /\ [][NextRefresh]_vars

\* C16: running the refresher, whatever the lookup would answer, leaves the
\* id and the label of every mention node and the rest of the document as
\* they were.
C16_RefreshKeepsLabels ==
    [][last'.op = "refresh" =>
        /\ DOMAIN doc' = DOMAIN doc
        /\ \A b \in DOMAIN doc :
              /\ doc'[b].type = doc[b].type
              /\ Len(doc'[b].content) = Len(doc[b].content)
              /\ \A k \in DOMAIN doc[b].content :
                    IF IsMention(doc[b].content[k])
                    THEN /\ IsMention(doc'[b].content[k])
                         /\ doc'[b].content[k].attrs.id = doc[b].content[k].attrs.id
                         /\ doc'[b].content[k].attrs.label = doc[b].content[k].attrs.label
                    ELSE doc'[b].content[k] = doc[b].content[k]
        /\ selection' = selection
    ]_vars

\* The refresher ran, with the lookup failing, on a document that holds a
\* labelled mention, which kept its label.
C16_Witness ==
    /\ last.op = "refresh"
    /\ last.lookup = "fails"
    /\ \E m \in last.mentions : m.label = "Old title"
    /\ \E k \in DOMAIN doc[1].content :
          doc[1].content[k] = MentionItem([id |-> "doc123", label |-> "Old title"])

====
